---- MODULE Spec2Model ----
(***************************************************************************)
(* HowManyDucks: the grid generation / validation engine of hmf_game.py.   *)
(*                                                                         *)
(* GameEngine seeds and draws from the module-level generator of Python's  *)
(* `random`: one stream per process.  The stream is modelled as a state    *)
(* (rng) with a next-state function; every random.randint / random.choice  *)
(* advances it by one step and reads the new state.  An engine built       *)
(* without a seed leaves the stream where the process start (or earlier    *)
(* use) left it: Init draws that state from a bounded set.                 *)
(*                                                                         *)
(* Grids are sequences of rows as in the source; the source's 0-based      *)
(* coordinates are kept and Cell adds the 1 of TLA+ sequences.             *)
(***************************************************************************)
EXTENDS Integers, Sequences, FiniteSets, TLC

VARIABLES
    rng,          \* state of the module-level random stream
    engines,      \* engine id -> [constructed, seed]   (self.seed)
    args,         \* engine id -> the arguments of its generate_grid call
    result,       \* engine id -> outcome of its generate_grid call
    pc,           \* position of the running generate_grid call
    cur,          \* the engine whose call runs (or ran last); 0: none yet
    params,       \* arguments of that call
    target_count, \* local target_count
    attempt,      \* local attempt (outer loop)
    grid,         \* local grid
    matches,      \* local matches (the placement record)
    placed,       \* loop index of `for _ in range(target_count)`
    tries,        \* loop index of `for _ in range(max_attempts)`
    scan_result   \* local scan_result (also the result of a direct scan)

vars == <<rng, engines, args, result, pc, cur, params, target_count, attempt,
          grid, matches, placed, tries, scan_result>>

\* ---------------------------------------------------------------- bounds

NumStreams == 8
MaxSeed == 2

\* ------------------------------------------------------ program constants

max_retries == 25
max_attempts == 1000

None == "None"

DIRECTIONS ==
    [d \in {"N", "NE", "E", "SE", "S", "SW", "W", "NW"} |->
        CASE d = "N"  -> <<-1, 0>>
          [] d = "NE" -> <<-1, 1>>
          [] d = "E"  -> <<0, 1>>
          [] d = "SE" -> <<1, 1>>
          [] d = "S"  -> <<1, 0>>
          [] d = "SW" -> <<1, -1>>
          [] d = "W"  -> <<0, -1>>
          [] OTHER    -> <<-1, -1>>]

\* The insertion order of the DIRECTIONS dict: the order of every iteration
\* over it and of list(allowed_dirs.keys()).
DirectionOrder == <<"N", "NE", "E", "SE", "S", "SW", "W", "NW">>

TARGET_WORD == <<"F", "U", "C", "K">>
LETTERS == <<"F", "U", "C", "K">>

\* ----------------------------------------------------- the random stream

\* One step of the generator.
RngNext(s) == (s * 17364) % 65521

\* random.seed(seed): the stream state is a function of the seed alone.
RngSeed(seed) == 1 + (seed % 65520)

\* The states the stream can be in when no engine has seeded it.
EntropyStates == {100 + 37 * k : k \in 1..NumStreams}

\* random.randint(lo, hi), lo <= hi: the value drawn from state s.
RandInt(s, lo, hi) == lo + (RngNext(s) % (hi - lo + 1))

\* random.choice(seq): the element drawn from state s.
Choice(s, seq) == seq[1 + (RngNext(s) % Len(seq))]

\* ---------------------------------------------------------------- grids

Cell(g, r, c) == g[r + 1][c + 1]

SetCell(g, r, c, v) == [g EXCEPT ![r + 1][c + 1] = v]

InBounds(r, c, size) == 0 <= r /\ r < size /\ 0 <= c /\ c < size

\* _create_empty_grid
CreateEmptyGrid(size) ==
    IF size <= 0 THEN <<>>
    ELSE [r \in 1..size |-> [c \in 1..size |-> None]]

SelectDirs(names, keep) == SelectSeq(names, LAMBDA d : d \in keep)

\* The 'all' branch returning the orthogonal directions only.
GetAllowedDirectionsNoDiagonals(mode) ==
    IF mode = "horizontal" THEN <<"E", "W">>
    ELSE SelectDirs(DirectionOrder, {"N", "S", "E", "W"})

\* Every mode allowing all the directions.
GetAllowedDirectionsAnyMode(mode) == DirectionOrder

\* _get_allowed_directions: the names, in dict order.
GetAllowedDirections(mode) ==
    IF mode = "horizontal" THEN <<"E", "W">>
    ELSE IF mode = "horiz_vert"
         THEN SelectDirs(DirectionOrder, {"N", "S", "E", "W"})
         ELSE DirectionOrder

\* The cells start, start+d, start+2d, start+3d.
WordCells(row, col, dr, dc) ==
    [i \in 1..Len(TARGET_WORD) |-> <<row + dr * (i - 1), col + dc * (i - 1)>>]

\* The bounds test with 0 < r and 0 < c for 0 <= r and 0 <= c.
CheckWordAtPositionStrictBounds(g, start_row, start_col, dr, dc, size) ==
    LET cells == WordCells(start_row, start_col, dr, dc) IN
    IF \E i \in 1..Len(TARGET_WORD) :
          ~(InBounds(cells[i][1], cells[i][2], size)
            /\ 0 < cells[i][1] /\ 0 < cells[i][2])
    THEN <<>>
    ELSE IF \A i \in 1..Len(TARGET_WORD) :
                Cell(g, cells[i][1], cells[i][2]) = TARGET_WORD[i]
         THEN cells
         ELSE <<>>

\* A check that also accepts the word read from its last letter.
CheckWordAtPositionEitherWay(g, start_row, start_col, dr, dc, size) ==
    LET cells == WordCells(start_row, start_col, dr, dc) IN
    IF \E i \in 1..Len(TARGET_WORD) : ~InBounds(cells[i][1], cells[i][2], size)
    THEN <<>>
    ELSE IF \/ \A i \in 1..Len(TARGET_WORD) :
                  Cell(g, cells[i][1], cells[i][2]) = TARGET_WORD[i]
            \/ \A i \in 1..Len(TARGET_WORD) :
                  Cell(g, cells[i][1], cells[i][2])
                  = TARGET_WORD[Len(TARGET_WORD) + 1 - i]
         THEN cells
         ELSE <<>>

\* _check_word_at_position: the cells, or <<>> for None.
CheckWordAtPosition(g, start_row, start_col, dr, dc, size) ==
    LET cells == WordCells(start_row, start_col, dr, dc) IN
    IF \E i \in 1..Len(TARGET_WORD) : ~InBounds(cells[i][1], cells[i][2], size)
    THEN <<>>
    ELSE IF \A i \in 1..Len(TARGET_WORD) :
                Cell(g, cells[i][1], cells[i][2]) = TARGET_WORD[i]
         THEN cells
         ELSE <<>>

\* Lexicographic order of coordinate pairs (Python's tuple order).
CellLess(a, b) == a[1] < b[1] \/ (a[1] = b[1] /\ a[2] < b[2])

\* In the recursive operators below a partial result is bound to a value
\* (v \in {e}) before the next step uses it, so that it is computed once.
RECURSIVE InsertSorted(_, _)
InsertSorted(sorted, x) ==
    IF sorted = <<>> THEN <<x>>
    ELSE IF CellLess(x, Head(sorted)) THEN <<x>> \o sorted
         ELSE <<Head(sorted)>> \o InsertSorted(Tail(sorted), x)

RECURSIVE SortCells(_)
SortCells(cells) ==
    IF cells = <<>> THEN <<>>
    ELSE CHOOSE out \in {InsertSorted(rest, Head(cells)) :
                            rest \in {SortCells(Tail(cells))}} : TRUE

\* _normalize_match: tuple(sorted(cells))
NormalizeMatch(cells) == SortCells(cells)

\* A duplicate test that compares the smallest cell only.
IsDuplicateMatchByFirstCell(normalized, ms) ==
    \E i \in 1..Len(ms) : NormalizeMatch(ms[i].cells)[1] = normalized[1]

\* _is_duplicate_match
IsDuplicateMatch(normalized, ms) ==
    \E i \in 1..Len(ms) : NormalizeMatch(ms[i].cells) = normalized

\* The body of scan_grid's innermost loop for one (row, col, direction).
ScanVisit(g, size, row, col, dir_name, ms) ==
    LET d == DIRECTIONS[dir_name]
        match == CheckWordAtPosition(g, row, col, d[1], d[2], size)
    IN  IF match # <<>> /\ ~IsDuplicateMatch(NormalizeMatch(match), ms)
        THEN Append(ms, [start |-> <<row, col>>, direction |-> dir_name,
                         cells |-> match])
        ELSE ms

\* The loop over the allowed directions at one cell (line 113), from the
\* i-th direction on.
RECURSIVE ScanDirs(_, _, _, _, _, _, _)
ScanDirs(g, size, row, col, dirs, i, ms) ==
    IF i > Len(dirs) THEN ms
    ELSE CHOOSE out \in {ScanDirs(g, size, row, col, dirs, i + 1, next) :
                            next \in {ScanVisit(g, size, row, col, dirs[i], ms)}} :
             TRUE

\* The loop over the columns of one row (line 112), from column col on.
RECURSIVE ScanCols(_, _, _, _, _, _)
ScanCols(g, size, row, col, dirs, ms) ==
    IF col >= size THEN ms
    ELSE CHOOSE out \in {ScanCols(g, size, row, col + 1, dirs, next) :
                            next \in {ScanDirs(g, size, row, col, dirs, 1, ms)}} :
             TRUE

\* The loop over the rows (line 111), from row on.
RECURSIVE ScanRows(_, _, _, _, _)
ScanRows(g, size, row, dirs, ms) ==
    IF row >= size THEN ms
    ELSE CHOOSE out \in {ScanRows(g, size, row + 1, dirs, next) :
                            next \in {ScanCols(g, size, row, 0, dirs, ms)}} :
             TRUE

\* A scanner that accepts the word read in either direction and records
\* every read it finds.
ScanGridBothWays(g, directions_mode) ==
    LET size == Len(g)
        dirs == GetAllowedDirections(directions_mode)
        Reads(n) ==
            LET row == n \div (size * Len(dirs))
                col == (n \div Len(dirs)) % size
                dir_name == dirs[1 + (n % Len(dirs))]
                d == DIRECTIONS[dir_name]
                cells == WordCells(row, col, d[1], d[2])
                fwd == CheckWordAtPosition(g, row, col, d[1], d[2], size)
                bwd == CheckWordAtPosition(g, row + 3 * d[1], col + 3 * d[2],
                                           0 - d[1], 0 - d[2], size)
            IN  IF fwd # <<>> \/ bwd # <<>>
                THEN <<[start |-> <<row, col>>, direction |-> dir_name,
                        cells |-> cells]>>
                ELSE <<>>
        F[n \in 0..(size * size * Len(dirs))] ==
            IF n = 0 THEN <<>> ELSE F[n - 1] \o Reads(n - 1)
        ms == F[size * size * Len(dirs)]
    IN  [count |-> Len(ms), matches |-> ms]

\* scan_grid
ScanGrid(g, directions_mode) ==
    CHOOSE out \in {[count |-> Len(ms), matches |-> ms] :
                       ms \in {ScanRows(g, Len(g), 0,
                                        GetAllowedDirections(directions_mode),
                                        <<>>)}} : TRUE

\* ------------------------------------------------------------ placement

\* The validity check without the allow_overlap test: an occupied cell is
\* accepted whenever it holds the letter to write.
CanPlaceLetterOnly(g, cells, allow_overlap) ==
    \A i \in 1..Len(TARGET_WORD) :
        LET held == Cell(g, cells[i][1], cells[i][2]) IN
        held = None \/ held = TARGET_WORD[i]

\* The validity check that looks at the first cell only.
CanPlaceFirstCell(g, cells, allow_overlap) ==
    LET held == Cell(g, cells[1][1], cells[1][2]) IN
    held = None \/ (allow_overlap /\ held = TARGET_WORD[1])

\* Lines 167-170 for the four cells: can_place after the checking loop.
CanPlace(g, cells, allow_overlap) ==
    \A i \in 1..Len(TARGET_WORD) :
        LET held == Cell(g, cells[i][1], cells[i][2]) IN
        held = None \/ (allow_overlap /\ held = TARGET_WORD[i])

\* Lines 174-177: write the four letters.
RECURSIVE WriteWord(_, _, _)
WriteWord(g, cells, i) ==
    IF i > Len(TARGET_WORD) THEN g
    ELSE WriteWord(SetCell(g, cells[i][1], cells[i][2], TARGET_WORD[i]),
                   cells, i + 1)

\* One iteration of _place_word's loop from stream state s: three draws,
\* the bounds check, the validity check and, when valid, the placement.
PlaceAttempt(g, size, dirs, allow_overlap, ms, s) ==
    LET row == RandInt(s, 0, size - 1)
        s1 == RngNext(s)
        col == RandInt(s1, 0, size - 1)
        s2 == RngNext(s1)
        dir_name == Choice(s2, dirs)
        s3 == RngNext(s2)
        d == DIRECTIONS[dir_name]
        end_row == row + d[1] * (Len(TARGET_WORD) - 1)
        end_col == col + d[2] * (Len(TARGET_WORD) - 1)
        cells == WordCells(row, col, d[1], d[2])
    IN  IF InBounds(end_row, end_col, size) /\ CanPlace(g, cells, allow_overlap)
        THEN [ok |-> TRUE, grid |-> WriteWord(g, cells, 1),
              matches |-> Append(ms, [start |-> <<row, col>>,
                                      direction |-> dir_name, cells |-> cells]),
              rng |-> s3]
        ELSE [ok |-> FALSE, grid |-> g, matches |-> ms, rng |-> s3]

\* ----------------------------------------------------------------- fill

\* The list random.choice draws the filler from.
FillWeights(distribution_mode) ==
    IF distribution_mode = "weighted"
    THEN <<"F", "F", "F", "F", "K", "K", "K", "K", "U", "C">>
    ELSE LETTERS

\* _fill_grid from the n-th cell (row-major) on: the grid and the stream.
RECURSIVE FillFrom(_, _, _, _, _)
FillFrom(g, size, weights, n, s) ==
    IF n >= size * size THEN [grid |-> g, rng |-> s]
    ELSE LET row == n \div size
             col == n % size
         IN  IF Cell(g, row, col) = None
             THEN CHOOSE out \in
                      {FillFrom(next[1], size, weights, n + 1, next[2]) :
                          next \in {<<SetCell(g, row, col, Choice(s, weights)),
                                      RngNext(s)>>}} : TRUE
             ELSE FillFrom(g, size, weights, n + 1, s)

\* A fill that writes every cell, empty or not.
FillGridEveryCell(g, size, distribution_mode, s) ==
    FillFrom(CreateEmptyGrid(size), size, FillWeights(distribution_mode), 0, s)

\* _fill_grid
FillGrid(g, size, distribution_mode, s) ==
    FillFrom(g, size, FillWeights(distribution_mode), 0, s)

\* -------------------------------------------------------------- outcomes

NoMeta == [size |-> 0, distribution_mode |-> "", allow_overlap |-> FALSE,
           directions_mode |-> "", seed |-> <<>>]

NoResult == [kind |-> "none", grid |-> <<>>, true_count |-> 0,
             matches |-> <<>>, metadata |-> NoMeta]

Raised(exc) == [NoResult EXCEPT !.kind = exc]

\* Lines 81-92: the returned dict.
Puzzle(g, count, ms, p, seed) ==
    [kind |-> "puzzle", grid |-> g, true_count |-> count, matches |-> ms,
     metadata |-> [size |-> p.size,
                   distribution_mode |-> p.distribution_mode,
                   allow_overlap |-> p.allow_overlap,
                   directions_mode |-> p.directions_mode,
                   seed |-> seed]]

\* requested_count is <<n>> for an int and <<min, max>> for a tuple.
IsRange(requested_count) == Len(requested_count) = 2

NoParams == [size |-> 0, requested_count |-> <<0>>, distribution_mode |-> "",
             allow_overlap |-> FALSE, directions_mode |-> ""]

\* ------------------------------------------------------------- engines

Engines == {1, 2}

IntSeeds == 1..MaxSeed
StrSeeds == {"hmf"}

\* int(hashlib.md5(seed.encode()).hexdigest()[:8], 16) of the string seeds
\* the model constructs engines with.
Md5Prefix(str) == CASE str = "hmf" -> 679856881
                    [] str = "a" -> 214005177

\* A constructor that stores the seed and does not call random.seed.
SeededStreamKept(s, seed) == s

\* GameEngine.__init__ for a seed given as <<>> (None) or <<n>> (an int): the
\* stream it leaves behind.
SeededStream(s, seed) == IF seed # <<>> THEN RngSeed(seed[1]) ELSE s

EngineInit(e, seed) ==
    /\ pc = "idle"
    /\ ~engines[e].constructed
    /\ rng' = SeededStream(rng, seed)
    /\ engines' = [engines EXCEPT ![e] = [constructed |-> TRUE, seed |-> seed]]
    /\ UNCHANGED <<args, result, pc, cur, params, target_count, attempt,
                   grid, matches, placed, tries, scan_result>>

ConstructNone(e) == EngineInit(e, <<>>)

ConstructInt(e, n) == EngineInit(e, <<n>>)

ConstructStr(e, str) == EngineInit(e, <<Md5Prefix(str)>>)

\* -------------------------------------------------------- generate_grid

\* Lines 54-62, entered with the arguments p: the target count is fixed or
\* drawn; random.randint raises ValueError on an empty range, and no handler
\* is in place there.  The model follows one call per engine.
Generate(e, p) ==
    /\ pc = "idle"
    /\ engines[e].constructed
    /\ result[e].kind = "none"
    /\ cur' = e
    /\ params' = p
    /\ args' = [args EXCEPT ![e] = p]
    /\ IF IsRange(p.requested_count)
       THEN IF p.requested_count[1] > p.requested_count[2]
            THEN /\ result' = [result EXCEPT ![e] = Raised("ValueError")]
                 /\ UNCHANGED <<rng, pc, target_count, attempt>>
            ELSE /\ target_count' = RandInt(rng, p.requested_count[1],
                                            p.requested_count[2])
                 /\ rng' = RngNext(rng)
                 /\ pc' = "attempt"
                 /\ attempt' = 0
                 /\ UNCHANGED result
       ELSE /\ target_count' = p.requested_count[1]
            /\ pc' = "attempt"
            /\ attempt' = 0
            /\ UNCHANGED <<rng, result>>
    /\ UNCHANGED <<engines, grid, matches, placed, tries, scan_result>>

\* An attempt that draws the target of a range again at its start.
BeginAttemptRedraw ==
    /\ pc = "attempt"
    /\ attempt < max_retries
    /\ grid' = CreateEmptyGrid(params.size)
    /\ matches' = <<>>
    /\ placed' = 0
    /\ tries' = 0
    /\ pc' = "place"
    /\ IF IsRange(params.requested_count)
       THEN /\ target_count' = RandInt(rng, params.requested_count[1],
                                       params.requested_count[2])
            /\ rng' = RngNext(rng)
       ELSE UNCHANGED <<rng, target_count>>
    /\ UNCHANGED <<engines, args, result, cur, params, attempt, scan_result>>

\* A retry that goes on from the grid of the attempt that failed.
BeginAttemptPatching ==
    /\ pc = "attempt"
    /\ attempt < max_retries
    /\ grid' = IF attempt = 0 THEN CreateEmptyGrid(params.size) ELSE grid
    /\ matches' = <<>>
    /\ placed' = 0
    /\ tries' = 0
    /\ pc' = "place"
    /\ UNCHANGED <<rng, engines, args, result, cur, params, target_count, attempt,
                   scan_result>>

\* Lines 65-68: the head of the outer loop and the start of an attempt.
BeginAttempt ==
    /\ pc = "attempt"
    /\ attempt < max_retries
    /\ grid' = CreateEmptyGrid(params.size)
    /\ matches' = <<>>
    /\ placed' = 0
    /\ tries' = 0
    /\ pc' = "place"
    /\ UNCHANGED <<rng, engines, args, result, cur, params, target_count, attempt,
                   scan_result>>

\* Line 97: the loop is exhausted.
RaiseRuntimeError ==
    /\ pc = "attempt"
    /\ attempt >= max_retries
    /\ result' = [result EXCEPT ![cur] = Raised("RuntimeError")]
    /\ pc' = "idle"
    /\ UNCHANGED <<rng, engines, args, cur, params, target_count, attempt, grid,
                   matches, placed, tries, scan_result>>

\* A failed attempt that is not counted.
AttemptFailedUncounted ==
    /\ attempt' = attempt
    /\ pc' = "attempt"

\* Lines 94-95: a ValueError ends the attempt; the loop goes on.
AttemptFailed ==
    /\ attempt' = attempt + 1
    /\ pc' = "attempt"

\* One iteration of _place_word's loop (lines 145-184) for the word of index
\* `placed`.  With size < 1 random.randint(0, size - 1) raises ValueError.
PlaceTry ==
    /\ pc = "place"
    /\ placed < target_count
    /\ tries < max_attempts
    /\ IF params.size < 1
       THEN /\ AttemptFailed
            /\ UNCHANGED <<rng, grid, matches, placed, tries>>
       ELSE LET r == PlaceAttempt(grid, params.size,
                                  GetAllowedDirections(params.directions_mode),
                                  params.allow_overlap, matches, rng)
            IN  /\ rng' = r.rng
                /\ grid' = r.grid
                /\ matches' = r.matches
                /\ placed' = IF r.ok THEN placed + 1 ELSE placed
                /\ tries' = IF r.ok THEN 0 ELSE tries + 1
                /\ UNCHANGED <<pc, attempt>>
    /\ UNCHANGED <<engines, args, result, cur, params, target_count, scan_result>>

\* Lines 186, 72-73: no placement in max_attempts tries: _place_word returns
\* False and the attempt ends with ValueError.
PlaceExhausted ==
    /\ pc = "place"
    /\ placed < target_count
    /\ tries >= max_attempts
    /\ AttemptFailed
    /\ UNCHANGED <<rng, engines, args, result, cur, params, target_count, grid,
                   matches, placed, tries, scan_result>>

\* Line 76: all words are placed; fill the remaining cells.
Fill ==
    /\ pc = "place"
    /\ placed >= target_count
    /\ LET f == FillGrid(grid, params.size, params.distribution_mode, rng)
       IN  /\ grid' = f.grid
           /\ rng' = f.rng
    /\ pc' = "scan"
    /\ UNCHANGED <<engines, args, result, cur, params, target_count, attempt,
                   matches, placed, tries, scan_result>>

\* An attempt accepted whatever the scan counts.
CountAcceptedAlways(count, target) == TRUE

\* An attempt accepted when the scan counts at least the target.
CountAcceptedAtLeast(count, target) == count >= target

\* Line 80: the test that accepts an attempt.
CountAccepted(count, target) == count = target

\* A validation whose scan takes one draw from the random stream.
ValidateDrawing ==
    /\ pc = "scan"
    /\ \E sr \in {ScanGrid(grid, params.directions_mode)} :
           /\ scan_result' = sr
           /\ IF CountAccepted(sr.count, target_count)
              THEN /\ result' = [result EXCEPT ![cur] =
                                    Puzzle(grid, target_count, sr.matches,
                                           params, engines[cur].seed)]
                   /\ pc' = "idle"
                   /\ UNCHANGED attempt
              ELSE /\ attempt' = attempt + 1
                   /\ pc' = "attempt"
                   /\ UNCHANGED result
    /\ rng' = RngNext(rng)
    /\ UNCHANGED <<engines, args, cur, params, target_count, grid, matches,
                   placed, tries>>

\* Lines 79-92: scan the filled grid; return the puzzle when the count is
\* the target, else go on with the next attempt.
Validate ==
    /\ pc = "scan"
    /\ \E sr \in {ScanGrid(grid, params.directions_mode)} :
           /\ scan_result' = sr
           /\ IF CountAccepted(sr.count, target_count)
              THEN /\ result' = [result EXCEPT ![cur] =
                                    Puzzle(grid, target_count, sr.matches,
                                           params, engines[cur].seed)]
                   /\ pc' = "idle"
                   /\ UNCHANGED attempt
              ELSE /\ attempt' = attempt + 1
                   /\ pc' = "attempt"
                   /\ UNCHANGED result
    /\ UNCHANGED <<rng, engines, args, cur, params, target_count, grid, matches,
                   placed, tries>>

\* A direct call of scan_grid on a given grid.
Scan ==
    /\ pc = "scan_call"
    /\ scan_result' = ScanGrid(grid, params.directions_mode)
    /\ pc' = "scanned"
    /\ UNCHANGED <<rng, engines, args, result, cur, params, target_count, attempt,
                   grid, matches, placed, tries>>

\* ----------------------------------------------------------- arguments

Modes == {"all", "horizontal", "horiz_vert"}

Params(sizes, counts, dists, overlaps, modes) ==
    [size : sizes, requested_count : counts, distribution_mode : dists,
     allow_overlap : overlaps, directions_mode : modes]

\* The calls of the main specification: every combination of the core
\* values, and the calls that end in the terminal failure without a search
\* of max_attempts tries per attempt.
GenParams ==
    Params({4, 5}, {<<0>>, <<1>>, <<2>>, <<3>>, <<1, 3>>, <<2, 1>>},
           {"even", "weighted"}, {TRUE, FALSE}, Modes)
    \cup Params({4}, {<<5>>}, {"even"}, {TRUE}, {"horizontal"})
    \cup Params({0}, {<<0>>, <<1>>}, {"even"}, {TRUE}, {"all"})

\* --------------------------------------------------------- specification

NoScan == [count |-> 0, matches |-> <<>>]

InitLocals ==
    /\ cur = 0
    /\ params = NoParams
    /\ target_count = 0
    /\ attempt = 0
    /\ grid = <<>>
    /\ matches = <<>>
    /\ placed = 0
    /\ tries = 0
    /\ scan_result = NoScan

Init ==
    /\ rng \in EntropyStates
    /\ engines = [e \in Engines |-> [constructed |-> FALSE, seed |-> <<>>]]
    /\ args = [e \in Engines |-> NoParams]
    /\ result = [e \in Engines |-> NoResult]
    /\ pc = "idle"
    /\ InitLocals

Construct(E) ==
    \E e \in E :
        \/ ConstructNone(e)
        \/ \E n \in IntSeeds : ConstructInt(e, n)
        \/ \E str \in StrSeeds : ConstructStr(e, str)

Step ==
    \/ BeginAttempt
    \/ RaiseRuntimeError
    \/ PlaceTry
    \/ PlaceExhausted
    \/ Fill
    \/ Validate

Next ==
    \/ Construct({1})
    \/ \E p \in GenParams : Generate(1, p)
    \/ Step

Spec == Init /\ [][Next]_vars

\* A call that has started runs on: generate_grid is sequential code with
\* no blocking operation, so a step of it that can be taken is taken.
SpecLive == Spec /\ WF_vars(Step)

\* ---------------------------------------- capacity: the terminal failure

\* Calls with allow_overlap=False that ask for more words than the cells can
\* hold (4 * n > size * size), and the calls at and below that limit.
CapParams ==
    Params({4}, {<<10>>}, {"even"}, {FALSE}, {"all"})
    \cup Params({4}, {<<5>>}, {"weighted"}, {FALSE}, {"horizontal"})
    \cup Params({3}, {<<3>>}, {"even"}, {FALSE}, {"horiz_vert"})
    \cup Params({4}, {<<4>>, <<3>>}, {"even"}, {FALSE}, {"horizontal"})
    \cup Params({4}, {<<5>>}, {"even"}, {TRUE}, {"horizontal"})

NextCap ==
    \/ Construct({1})
    \/ \E p \in CapParams : Generate(1, p)
    \/ Step

SpecCap == Init /\ [][NextCap]_vars

\* ------------------------------------------------------- two engines

PairParams ==
    Params({4}, {<<2>>, <<2, 3>>}, {"even"}, {TRUE}, {"all"})
    \cup Params({4}, {<<3>>}, {"weighted"}, {FALSE}, {"all"})
    \cup Params({0}, {<<1>>}, {"even"}, {TRUE}, {"all"})

\* Engines are built and used in any order; a call runs to its end before
\* the next constructor or call starts (the code has no threads).
NextPair ==
    \/ Construct(Engines)
    \/ \E e \in Engines, p \in PairParams : Generate(e, p)
    \/ Step

SpecPair == Init /\ [][NextPair]_vars

\* An engine is pending from its construction to the end of its call.
Pending(e) == engines[e].constructed /\ result[e].kind = "none"

\* Every engine is used right after its construction: no engine is built
\* while another is pending.
NextSeq ==
    \/ (\A e \in Engines : ~Pending(e)) /\ Construct(Engines)
    \/ \E e \in Engines, p \in PairParams : Generate(e, p)
    \/ Step

SpecSeq == Init /\ [][NextSeq]_vars

\* ---------------------------------------------------- the scanner alone

MaxStamps == 2

\* The placements (start, direction) that fit a grid of the given size.
Placements(size) ==
    {pl \in (0..(size - 1)) \X (0..(size - 1)) \X DOMAIN DIRECTIONS :
        InBounds(pl[1] + 3 * DIRECTIONS[pl[3]][1],
                 pl[2] + 3 * DIRECTIONS[pl[3]][2], size)}

Stamp(g, pl) ==
    WriteWord(g, WordCells(pl[1], pl[2], DIRECTIONS[pl[3]][1],
                           DIRECTIONS[pl[3]][2]), 1)

\* Grids of one letter with up to k words written over it.
RECURSIVE Stamped(_, _)
Stamped(size, k) ==
    IF k = 0
    THEN {[r \in 1..size |-> [c \in 1..size |-> b]] : b \in {"F", "U", "C", "K"}}
    ELSE LET prev == Stamped(size, k - 1)
         IN  prev \cup {Stamp(g, pl) : g \in prev, pl \in Placements(size)}

\* Grids of four rows, each the word, the word reversed or a single letter.
RowGrids == [1..4 -> {<<"F", "U", "C", "K">>, <<"K", "C", "U", "F">>,
                      <<"U", "U", "U", "U">>}]

ScanGrids == Stamped(4, MaxStamps) \cup Stamped(5, 1) \cup RowGrids

\* The stream plays no part in a scan: one state of it is enough.
InitScan ==
    /\ rng = CHOOSE s \in EntropyStates : TRUE
    /\ engines = [e \in Engines |-> [constructed |-> TRUE, seed |-> <<>>]]
    /\ args = [e \in Engines |-> NoParams]
    /\ result = [e \in Engines |-> NoResult]
    /\ pc = "scan_call"
    /\ cur = 0
    /\ \E m \in Modes : params = [NoParams EXCEPT !.directions_mode = m]
    /\ target_count = 0
    /\ attempt = 0
    /\ grid \in ScanGrids
    /\ matches = <<>>
    /\ placed = 0
    /\ tries = 0
    /\ scan_result = NoScan

NextScan == Scan

SpecScan == InitScan /\ [][NextScan]_vars

\* ================================================================ claims

CellSet(cells) == {cells[i] : i \in 1..Len(cells)}

Reversed(seq) == [i \in 1..Len(seq) |-> seq[Len(seq) + 1 - i]]

\* The direction whose vector is the negation of d's.
Opposite(d) ==
    CHOOSE o \in DOMAIN DIRECTIONS :
        DIRECTIONS[o] = <<0 - DIRECTIONS[d][1], 0 - DIRECTIONS[d][2]>>

Scanned == pc = "scanned"

AllRowsWord == [r \in 1..4 |-> TARGET_WORD]

\* C5 as stated: the scan of the 4x4 grid whose rows are all F,U,C,K, with
\* all 8 directions, reports exactly 4 matches.
C5_FourRowsCountIsFour ==
    (Scanned /\ grid = AllRowsWord /\ params.directions_mode = "all")
        => scan_result.count = 4

\* C5 amended: that scan reports exactly 6 matches: the four rows read to the
\* East, the diagonal from (0,0) read SE and the diagonal from (3,0) read NE.
C5_FourRowsCountIsSix ==
    (Scanned /\ grid = AllRowsWord /\ params.directions_mode = "all")
        => /\ scan_result.count = 6
           /\ {<<m.start, m.direction>> :
                 m \in {scan_result.matches[i] : i \in 1..Len(scan_result.matches)}}
              = {<<<<r, 0>>, "E">> : r \in 0..3}
                \cup {<<<<0, 0>>, "SE">>, <<<<3, 0>>, "NE">>}

C5_Witness ==
    Scanned /\ grid = AllRowsWord /\ params.directions_mode = "all"
        /\ scan_result.count > 4

\* C6: scan_grid never returns two matches whose cell lists are equal as
\* sets, for every grid and every directions mode.
C6_NoDuplicateCellSets ==
    Scanned =>
        \A i, j \in 1..Len(scan_result.matches) :
            i # j => CellSet(scan_result.matches[i].cells)
                     # CellSet(scan_result.matches[j].cells)

\* A scan that found the word read towards the West or the North (the same
\* cells read the other way spell the word reversed) beside another match.
C6_Witness ==
    /\ Scanned
    /\ scan_result.count >= 2
    /\ \E i \in 1..Len(scan_result.matches) :
          scan_result.matches[i].direction \in {"W", "N", "NW", "SW"}

\* The cells start, start+d, .. are in the grid and read K,C,U,F along d.
ReadsReversed(g, row, col, d) ==
    LET cells == WordCells(row, col, DIRECTIONS[d][1], DIRECTIONS[d][2]) IN
    /\ \A i \in 1..4 : InBounds(cells[i][1], cells[i][2], Len(g))
    /\ \A i \in 1..4 : Cell(g, cells[i][1], cells[i][2]) = Reversed(TARGET_WORD)[i]

ModeDirections(mode) ==
    CASE mode = "horizontal" -> {"E", "W"}
      [] mode = "horiz_vert" -> {"N", "S", "E", "W"}
      [] OTHER -> DOMAIN DIRECTIONS

\* C7: four in-bounds cells that read K,C,U,F along an allowed direction d
\* are reported as exactly one occurrence, which starts at the F cell and has
\* the direction opposite to d, in each directions mode.
C7_ReversedReadReportedOnce ==
    Scanned =>
        \A row, col \in 0..(Len(grid) - 1) :
            \A d \in ModeDirections(params.directions_mode) :
                ReadsReversed(grid, row, col, d) =>
                    LET cells == WordCells(row, col, DIRECTIONS[d][1],
                                           DIRECTIONS[d][2])
                        hits == {i \in 1..Len(scan_result.matches) :
                                   CellSet(scan_result.matches[i].cells)
                                   = CellSet(cells)}
                    IN  /\ Cardinality(hits) = 1
                        /\ \A i \in hits :
                              /\ scan_result.matches[i].start = cells[4]
                              /\ scan_result.matches[i].direction = Opposite(d)
                              /\ scan_result.matches[i].cells = Reversed(cells)

\* A scanned grid of each mode that holds a reversed read along a diagonal,
\* a column or a row direction the mode allows.
C7_Witness ==
    /\ Scanned
    /\ params.directions_mode = "horizontal"
    /\ \E row, col \in 0..(Len(grid) - 1) : ReadsReversed(grid, row, col, "E")
    /\ scan_result.count >= 1

\* The cells start, start+d, .. are in the grid and read F,U,C,K along d.
ReadsWord(g, row, col, d) ==
    LET cells == WordCells(row, col, DIRECTIONS[d][1], DIRECTIONS[d][2]) IN
    /\ \A i \in 1..4 : InBounds(cells[i][1], cells[i][2], Len(g))
    /\ \A i \in 1..4 : Cell(g, cells[i][1], cells[i][2]) = TARGET_WORD[i]

\* The pairs (start cell, direction of the mode) that read the word in g,
\* each with its cells in reading order.
Occurrences(g, mode) ==
    {<<<<row, col>>, d, WordCells(row, col, DIRECTIONS[d][1], DIRECTIONS[d][2])>> :
        <<row, col, d>> \in
            {x \in (0..(Len(g) - 1)) \X (0..(Len(g) - 1)) \X ModeDirections(mode) :
                ReadsWord(g, x[1], x[2], x[3])}}

\* C14: for every filled grid and every directions mode the matches of
\* scan_grid are exactly the pairs (start cell, allowed direction) whose 4
\* cells lie in the grid and read F,U,C,K in order; each match has its
\* first cell as start, that direction's label and its cells in reading
\* order; count is the number of matches.
C14_ScanIsExact ==
    Scanned =>
        LET ms == scan_result.matches IN
        /\ {<<ms[i].start, ms[i].direction, ms[i].cells>> : i \in 1..Len(ms)}
           = Occurrences(grid, params.directions_mode)
        /\ Len(ms) = Cardinality(Occurrences(grid, params.directions_mode))
        /\ \A i \in 1..Len(ms) : ms[i].start = ms[i].cells[1]
        /\ scan_result.count = Len(ms)

\* A scan that found two occurrences from one start cell and a third one
\* elsewhere.
C14_Witness ==
    /\ Scanned
    /\ scan_result.count >= 3
    /\ \E i, j \in 1..Len(scan_result.matches) :
          /\ i # j
          /\ scan_result.matches[i].start = scan_result.matches[j].start

\* The raw occurrences of a scan: the (row, col, direction) of the mode
\* for which _check_word_at_position returns cells.
RawOccurrences(g, mode) ==
    {x \in (0..(Len(g) - 1)) \X (0..(Len(g) - 1)) \X ModeDirections(mode) :
        CheckWordAtPosition(g, x[1], x[2], DIRECTIONS[x[3]][1],
                            DIRECTIONS[x[3]][2], Len(g)) # <<>>}

RawCells(g, x) ==
    CellSet(CheckWordAtPosition(g, x[1], x[2], DIRECTIONS[x[3]][1],
                                DIRECTIONS[x[3]][2], Len(g)))

\* C19: for every grid over F,U,C,K and every directions mode no two raw
\* occurrences of scan_grid (different start cell or direction) cover the
\* same 4 cells; the duplicate check discards nothing, and count is the
\* number of (start cell, direction) pairs that read the word.
C19_DedupDiscardsNothing ==
    Scanned =>
        LET raw == RawOccurrences(grid, params.directions_mode) IN
        /\ \A x, y \in raw : x # y => RawCells(grid, x) # RawCells(grid, y)
        /\ scan_result.count = Cardinality(raw)
        /\ {<<scan_result.matches[i].start[1], scan_result.matches[i].start[2],
              scan_result.matches[i].direction>> :
                 i \in 1..Len(scan_result.matches)} = raw

\* A scan with two occurrences that share a cell, on a grid that also
\* holds the word read from its last letter along a direction of the mode.
C19_Witness ==
    /\ Scanned
    /\ \E i, j \in 1..Len(scan_result.matches) :
          /\ i # j
          /\ CellSet(scan_result.matches[i].cells)
             \cap CellSet(scan_result.matches[j].cells) # {}
    /\ \E row, col \in 0..(Len(grid) - 1) :
          \E d \in ModeDirections(params.directions_mode) :
              ReadsReversed(grid, row, col, d)

\* ------------------------------------------------------- the generator

Returned(e) == result[e].kind = "puzzle"

LetterSet == {LETTERS[i] : i \in 1..Len(LETTERS)}

OnlyLetters(g) ==
    \A r \in 1..Len(g) : \A c \in 1..Len(g[r]) : g[r][c] \in LetterSet

\* C1: an independent scan of a returned grid with the puzzle's own
\* directions_mode counts true_count occurrences, and the puzzle's matches
\* list has true_count entries.
C1_RoundTrip ==
    \A e \in Engines :
        Returned(e) =>
            /\ ScanGrid(result[e].grid, result[e].metadata.directions_mode).count
               = result[e].true_count
            /\ Len(result[e].matches) = result[e].true_count

\* A puzzle with several words returned after an attempt was discarded for
\* its scan count.
C1_Witness ==
    /\ cur # 0
    /\ Returned(cur)
    /\ result[cur].true_count >= 2
    /\ attempt >= 1
    /\ tries = 0
    /\ result[cur].metadata.distribution_mode = "weighted"

\* C2: with allow_overlap=False the cell lists of the returned matches are
\* pairwise disjoint.
C2_NoOverlapDisjoint ==
    \A e \in Engines :
        (Returned(e) /\ ~result[e].metadata.allow_overlap) =>
            \A i, j \in 1..Len(result[e].matches) :
                i # j => CellSet(result[e].matches[i].cells)
                         \cap CellSet(result[e].matches[j].cells) = {}

C2_Witness ==
    \E e \in Engines :
        /\ Returned(e)
        /\ ~result[e].metadata.allow_overlap
        /\ Len(result[e].matches) = 3
        /\ result[e].metadata.directions_mode = "all"

\* Both engines were built with the same seed and called with the same
\* arguments, and both calls have ended.
SameGeneration(e1, e2) ==
    /\ e1 # e2
    /\ engines[e1].constructed /\ engines[e2].constructed
    /\ engines[e1].seed # <<>>
    /\ engines[e1].seed = engines[e2].seed
    /\ result[e1].kind # "none" /\ result[e2].kind # "none"
    /\ args[e1] = args[e2]

\* C3: two generations, each an engine constructed with seed S and then
\* called with generate_grid(P), return identical grids, true_count and
\* match lists.
C3_Deterministic ==
    \A e1, e2 \in Engines :
        SameGeneration(e1, e2) =>
            /\ result[e1].kind = result[e2].kind
            /\ result[e1].grid = result[e2].grid
            /\ result[e1].true_count = result[e2].true_count
            /\ result[e1].matches = result[e2].matches

C3_Witness ==
    /\ SameGeneration(1, 2)
    /\ Returned(1) /\ Returned(2)
    /\ result[1].true_count >= 2
    /\ IsRange(args[1].requested_count)

\* C4: what an engine returns does not depend on another engine being
\* constructed or used between its construction and its call: engines of
\* the same seed and arguments end alike in every order of use.
C4_OwnStream ==
    \A e1, e2 \in Engines :
        SameGeneration(e1, e2) => result[e1] = result[e2]

Oversubscribed(p) ==
    /\ ~p.allow_overlap
    /\ ~IsRange(p.requested_count)
    /\ 4 * p.requested_count[1] > p.size * p.size

\* C8: with allow_overlap=False and 4 * n > size * size no puzzle is ever
\* returned: no attempt gets past placement, and the call ends with the
\* terminal failure after max_retries attempts.
C8_CapacityFailure ==
    (cur # 0 /\ Oversubscribed(params)) =>
        /\ pc # "scan"
        /\ placed < target_count
        /\ result[cur].kind \in {"none", "RuntimeError"}
        /\ pc = "idle" => (result[cur].kind = "RuntimeError"
                           /\ attempt = max_retries)

C8_Witness ==
    /\ cur # 0
    /\ params.size = 4
    /\ params.requested_count = <<10>>
    /\ Oversubscribed(params)
    /\ result[cur].kind = "RuntimeError"

\* C9 as stated: every call ends with a returned puzzle or with the terminal
\* failure raised after all max_retries attempts; nothing else escapes.
C9_TwoOutcomes ==
    \A e \in Engines :
        /\ result[e].kind \in {"none", "puzzle", "RuntimeError"}
        /\ (cur = e /\ result[e].kind = "RuntimeError") => attempt = max_retries

\* C10: with a fixed count n >= 0 every returned puzzle has true_count = n;
\* for n = 0 no word was placed, the grid holds filler letters only and a
\* scan of it reports nothing.
C10_FixedCount ==
    \A e \in Engines :
        (Returned(e) /\ ~IsRange(args[e].requested_count)
                     /\ args[e].requested_count[1] >= 0) =>
            /\ result[e].true_count = args[e].requested_count[1]
            /\ args[e].requested_count[1] = 0 =>
                  /\ cur = e => (matches = <<>> /\ placed = 0)
                  /\ result[e].matches = <<>>
                  /\ OnlyLetters(result[e].grid)
                  /\ ScanGrid(result[e].grid,
                              result[e].metadata.directions_mode).count = 0

\* A puzzle of no word returned after the filler had spelled the word in an
\* earlier attempt.
C10_Witness ==
    /\ cur # 0
    /\ Returned(cur)
    /\ args[cur].requested_count = <<0>>
    /\ args[cur].size >= 4
    /\ attempt >= 1

\* The target of a call stays what it was when the call started, and the
\* head of an attempt consumes no draw.
TargetKept ==
    /\ pc # "idle" => target_count' = target_count
    /\ (pc = "attempt" /\ pc' = "place") => rng' = rng

\* A returned puzzle of a range call has the call's target as true_count,
\* within the range.
RangeRespected ==
    \A e \in Engines :
        (Returned(e) /\ IsRange(args[e].requested_count)) =>
            /\ args[e].requested_count[1] <= result[e].true_count
            /\ result[e].true_count <= args[e].requested_count[2]
            /\ cur = e => result[e].true_count = target_count

\* C11: with requested_count a range (min, max) the target is drawn once,
\* before the first attempt, and no retry draws it again; every returned
\* puzzle has true_count equal to that value, and min <= true_count <= max.
C11_RangeDrawnOnce == []RangeRespected /\ [][TargetKept]_vars

\* A puzzle of a range call returned after a discarded attempt.
C11_Witness ==
    /\ cur # 0
    /\ Returned(cur)
    /\ args[cur].requested_count = <<1, 3>>
    /\ attempt >= 1
    /\ result[cur].true_count >= 2

\* Every match of ms has a direction of the mode, and its cells run from its
\* start along that direction.
AlongMode(ms, mode) ==
    \A i \in 1..Len(ms) :
        /\ ms[i].direction \in ModeDirections(mode)
        /\ ms[i].cells = WordCells(ms[i].start[1], ms[i].start[2],
                                   DIRECTIONS[ms[i].direction][1],
                                   DIRECTIONS[ms[i].direction][2])

\* C12: directions_mode restricts placement and scanning: every word placed
\* by _place_word, every occurrence reported by scan_grid and every match of
\* a returned puzzle has its direction in the mode's set: E, W for
\* 'horizontal', N, S, E, W for 'horiz_vert', all 8 for 'all'.
C12_DirectionsOfTheMode ==
    /\ cur # 0 => /\ AlongMode(matches, params.directions_mode)
                  /\ AlongMode(scan_result.matches, params.directions_mode)
    /\ \A e \in Engines :
          Returned(e) =>
              AlongMode(result[e].matches, result[e].metadata.directions_mode)

\* A horiz_vert puzzle with a word along a column beside a word along a
\* row, in a state where the placement record is that of the puzzle.
C12_Witness ==
    /\ cur # 0
    /\ Returned(cur)
    /\ params.directions_mode = "horiz_vert"
    /\ \E i, j \in 1..Len(matches) :
          /\ matches[i].direction \in {"N", "S"}
          /\ matches[j].direction \in {"E", "W"}
    /\ \E i \in 1..Len(result[cur].matches) :
          result[cur].matches[i].direction \in {"N", "S"}

\* A step that scans leaves the grid and the random stream as they were,
\* and a second scan of the grid would report what this one reported.
ScanLeavesState ==
    pc \in {"scan", "scan_call"} =>
        /\ grid' = grid
        /\ rng' = rng
        /\ matches' = matches
        /\ scan_result' = ScanGrid(grid', params.directions_mode)
        /\ scan_result'.count = Len(scan_result'.matches)

\* C13: scan_grid is a pure function of the grid and the directions mode: a
\* scan leaves every cell unchanged and consumes nothing from the random
\* stream, so a second scan returns the same count and matches, and a scan
\* between two generation steps does not alter a later draw.
C13_ScanIsPure == [][ScanLeavesState]_vars

\* A word placed in an attempt that follows a scan which rejected the
\* attempt before.
C13_Witness ==
    /\ pc = "place"
    /\ attempt >= 1
    /\ placed >= 1
    /\ scan_result.count # target_count
    /\ scan_result.count >= 1

\* A step of an attempt keeps every letter the grid holds; a rejected
\* placement try changes neither the grid nor the placement record.
LettersKept ==
    pc = "place" =>
        /\ Len(grid') = Len(grid)
        /\ \A r, c \in 0..(Len(grid) - 1) :
              Cell(grid, r, c) # None => Cell(grid', r, c) = Cell(grid, r, c)
        /\ (pc' = "place" /\ placed' = placed) =>
              (grid' = grid /\ matches' = matches)

\* Every word of the placement record reads F,U,C,K along its cells.
PlacedWordsRead ==
    \A i \in 1..Len(matches) :
        \A k \in 1..Len(TARGET_WORD) :
            Cell(grid, matches[i].cells[k][1], matches[i].cells[k][2])
            = TARGET_WORD[k]

\* C15: within an attempt a cell that has received a letter never changes
\* it: _place_word writes empty cells or, with allow_overlap, cells that
\* hold the letter written, a rejected try writes nothing, and _fill_grid
\* writes empty cells only; so every placed word still reads F,U,C,K along
\* its cells when the grid is scanned.
C15_LettersNeverChange == []PlacedWordsRead /\ [][LettersKept]_vars

\* A filled grid, about to be scanned, with two placed words that share a
\* cell.
C15_Witness ==
    /\ pc = "scan"
    /\ params.allow_overlap
    /\ \E i, j \in 1..Len(matches) :
          /\ i # j
          /\ CellSet(matches[i].cells) # CellSet(matches[j].cells)
          /\ CellSet(matches[i].cells) \cap CellSet(matches[j].cells) # {}
    /\ OnlyLetters(grid)

\* The cells of g that hold something.
Occupied(g) ==
    {x \in (0..(Len(g) - 1)) \X (0..(Len(g) - 1)) : Cell(g, x[1], x[2]) # None}

\* C16: every attempt starts from a grid of size*size empty cells and an
\* empty placement record: while words are placed the grid holds the
\* letters of this attempt's recorded placements and nothing else, so no
\* letter and no record of a failed attempt is seen by a later one; the
\* returned grid is the grid of the accepted attempt, whose record has one
\* placement per word.
C16_FreshAttempt ==
    /\ pc = "place" =>
          /\ Len(grid) = params.size
          /\ \A r \in 1..Len(grid) : Len(grid[r]) = params.size
          /\ Len(matches) = placed
          /\ Occupied(grid) = UNION {CellSet(matches[i].cells) :
                                        i \in 1..Len(matches)}
          /\ placed = 0 => (matches = <<>> /\ Occupied(grid) = {})
    /\ (cur # 0 /\ Returned(cur)) =>
          /\ Len(matches) = result[cur].true_count
          /\ result[cur].grid = grid

\* The start of an attempt that follows one discarded for a scan count
\* above the target.
C16_Witness ==
    /\ pc = "place"
    /\ placed = 0
    /\ tries = 0
    /\ attempt >= 1
    /\ scan_result.count > target_count
    /\ target_count >= 2

\* The loop counters stay within their budgets; the terminal failure comes
\* with the attempts used up and a puzzle with attempts to spare.
WithinBudget ==
    /\ attempt \in 0..max_retries
    /\ tries \in 0..max_attempts
    /\ placed >= 0
    /\ cur # 0 => (placed <= target_count \/ placed = 0)
    /\ \A e \in Engines :
          /\ (cur = e /\ result[e].kind = "RuntimeError") => attempt = max_retries
          /\ (cur = e /\ Returned(e)) => /\ attempt < max_retries
                                          /\ scan_result.count = target_count

\* A scan that counts the target ends the call with the puzzle, in the
\* same attempt; a word with its tries used up ends the attempt.
LoopExits ==
    /\ (pc = "scan" /\ scan_result'.count = target_count) =>
          (pc' = "idle" /\ Returned(cur)' /\ attempt' = attempt)
    /\ (pc = "place" /\ placed < target_count /\ tries = max_attempts) =>
          (pc' = "attempt" /\ attempt' = attempt + 1)
    /\ (pc = "attempt" /\ attempt < max_retries) => result' = result

\* C17: generate_grid always terminates: at most 25 attempts, each of at
\* most target_count placements of at most 1000 tries (a word not placed in
\* 1000 tries fails the attempt); the first attempt whose scan counts the
\* target returns at once, and the terminal failure is raised only after
\* the 25th attempt has failed.
C17_Terminates ==
    /\ []WithinBudget
    /\ [][LoopExits]_vars
    /\ (pc # "idle") ~> (pc = "idle")

\* The terminal failure of a call whose last attempt placed its words and
\* was not accepted.
C17_Witness ==
    /\ cur # 0
    /\ result[cur].kind = "RuntimeError"
    /\ attempt = max_retries
    /\ params.size = 4
    /\ placed = target_count
    /\ target_count >= 1

\* The cell sets of the matches of ms.
CellSets(ms) == {CellSet(ms[i].cells) : i \in 1..Len(ms)}

\* C18 as stated: in every returned puzzle the cell sets of the returned
\* matches are exactly those of the words placed in the accepted attempt:
\* the placed words have pairwise different cell sets, each is among the
\* returned matches and no returned match was formed by filler letters; an
\* attempt that placed the same word twice is never accepted.
C18_MatchesArePlacedWords ==
    (cur # 0 /\ Returned(cur)) =>
        /\ \A i, j \in 1..Len(matches) :
              i # j => CellSet(matches[i].cells) # CellSet(matches[j].cells)
        /\ CellSets(matches) = CellSets(result[cur].matches)

====
